---- MODULE Spec2Model ----
(***************************************************************************)
(* Connect-4 rule engine (Connect4State) and Monte Carlo Tree Search       *)
(* (MCTSNode, mcts_search) of src/MCTS_Connect4/connect4_mcts.py.          *)
(*                                                                         *)
(* Rewards are multiples of 0.5 in the program (0.0, 0.5, 1.0 and their    *)
(* sums), so every reward and every node's wins is held here in HALVES:    *)
(* 0.0 -> 0, 0.5 -> 1, 1.0 -> 2, and "1.0 - result" is 2 - result.         *)
(* Python's None is the integer None (-1); a node reference is an index    *)
(* into the sequence nodes, and the reference None is the index 0.         *)
(***************************************************************************)
EXTENDS Integers, Sequences, FiniteSets, TLC

\* ------------------------------------------------------------ constants
ROWS == 6
COLS == 7
EMPTY == 0
PLAYER1 == 1
PLAYER2 == 2
None == -1

\* ------------------------------------------------------------ bounds
\* Largest iteration count passed to mcts_search.
MaxIter == 4
\* Largest number of empty cells in an open column of a start board.
MaxOpen == 2
\* Largest number of children of a node select_child_uct is called on by itself.
MaxKids == 3
\* Largest visit count of a node select_child_uct is called on by itself, and
\* of its children.
MaxVisits == 2

\* Number of values the random source delivers before it repeats.
TapeLen == 3

\* Largest number of make_move calls on the rule-engine object.
MaxCalls == 2

\* The largest number of moves played in a game from the empty board.
MaxPlies == 8

Rows == 0 .. (ROWS - 1)
Cols == 0 .. (COLS - 1)
Players == {PLAYER1, PLAYER2}

Max(S) == CHOOSE x \in S : \A y \in S : y <= x
Min(S) == CHOOSE x \in S : \A y \in S : x <= y

\* ------------------------------------------------------------ Connect4State
\* Connect4State.__init__ with board=None: the empty board.
EmptyBoard == [r \in Rows |-> [c \in Cols |-> EMPTY]]

Connect4State(board, current_player) ==
    [board |-> board, current_player |-> current_player]

\* clone: a new object with a row-by-row copy of the board; values here, so
\* the copy is the value itself and shares nothing with the original.
clone(s) == Connect4State(s.board, s.current_player)

\* get_legal_moves: the columns whose top cell is empty, in ascending order.
get_legal_moves(s) ==
    SelectSeq([i \in 1 .. COLS |-> i - 1], LAMBDA c : s.board[0][c] = EMPTY)

\* The other player, as make_move computes it: PLAYER1 if the mover is PLAYER2,
\* PLAYER2 in every other case.
other_player(p) == IF p = PLAYER2 THEN PLAYER1 ELSE PLAYER2

\* Mutant of make_move: the turn is handed over even when the column is full.
make_move_always_flips(s, col) ==
    LET free == {r \in Rows : s.board[r][col] = EMPTY}
    IN  IF free = {}
        THEN [ok |-> FALSE,
              state |-> [s EXCEPT !.current_player = other_player(s.current_player)]]
        ELSE LET r == Max(free)
             IN  [ok |-> TRUE,
                  state |-> [board |-> [s.board EXCEPT ![r][col] = s.current_player],
                             current_player |-> other_player(s.current_player)]]

\* Mutant of make_move: the column is scanned from the top row down.
make_move_top_down(s, col) ==
    LET free == {r \in Rows : s.board[r][col] = EMPTY}
    IN  IF free = {}
        THEN [ok |-> FALSE, state |-> s]
        ELSE LET r == Min(free)
             IN  [ok |-> TRUE,
                  state |-> [board |-> [s.board EXCEPT ![r][col] = s.current_player],
                             current_player |-> other_player(s.current_player)]]

\* Mutant of make_move: the piece placed is the other player's.
make_move_places_opponent(s, col) ==
    LET free == {r \in Rows : s.board[r][col] = EMPTY}
    IN  IF free = {}
        THEN [ok |-> FALSE, state |-> s]
        ELSE LET r == Max(free)
             IN  [ok |-> TRUE,
                  state |-> [board |-> [s.board EXCEPT
                                           ![r][col] = other_player(s.current_player)],
                             current_player |-> other_player(s.current_player)]]

\* Mutant of make_move: the turn is not handed over.
make_move_keeps_turn(s, col) ==
    LET free == {r \in Rows : s.board[r][col] = EMPTY}
    IN  IF free = {}
        THEN [ok |-> FALSE, state |-> s]
        ELSE LET r == Max(free)
             IN  [ok |-> TRUE,
                  state |-> [board |-> [s.board EXCEPT ![r][col] = s.current_player],
                             current_player |-> s.current_player]]

\* make_move: scan the column from the bottom row up for the first empty cell;
\* place the mover's piece and flip the turn (ok), or change nothing (not ok).
make_move(s, col) ==
    LET free == {r \in Rows : s.board[r][col] = EMPTY}
    IN  IF free = {}
        THEN [ok |-> FALSE, state |-> s]
        ELSE LET r == Max(free)
             IN  [ok |-> TRUE,
                  state |-> [board |-> [s.board EXCEPT ![r][col] = s.current_player],
                             current_player |-> other_player(s.current_player)]]

\* Mutant of HorizontalScan: the column loop stops one short, range(COLS - 4).
HorizontalScan_short ==
    [k \in 1 .. ROWS * (COLS - 4) |->
        LET r == (k - 1) \div (COLS - 4)
            c == (k - 1) % (COLS - 4)
        IN  [i \in 1 .. 4 |-> <<r, c + (i - 1)>>]]

\* The four scans of check_winner, each as the sequence of its candidate lines
\* (four cells <<row, col>>) in the order the loops visit them.
HorizontalScan ==
    [k \in 1 .. ROWS * (COLS - 3) |->
        LET r == (k - 1) \div (COLS - 3)
            c == (k - 1) % (COLS - 3)
        IN  [i \in 1 .. 4 |-> <<r, c + (i - 1)>>]]

VerticalScan ==
    [k \in 1 .. COLS * (ROWS - 3) |->
        LET c == (k - 1) \div (ROWS - 3)
            r == (k - 1) % (ROWS - 3)
        IN  [i \in 1 .. 4 |-> <<r + (i - 1), c>>]]

DiagDownScan ==
    [k \in 1 .. (ROWS - 3) * (COLS - 3) |->
        LET r == (k - 1) \div (COLS - 3)
            c == (k - 1) % (COLS - 3)
        IN  [i \in 1 .. 4 |-> <<r + (i - 1), c + (i - 1)>>]]

DiagUpScan ==
    [k \in 1 .. (ROWS - 3) * (COLS - 3) |->
        LET r == 3 + ((k - 1) \div (COLS - 3))
            c == (k - 1) % (COLS - 3)
        IN  [i \in 1 .. 4 |-> <<r - (i - 1), c + (i - 1)>>]]

ScanOrder == HorizontalScan \o VerticalScan \o DiagDownScan \o DiagUpScan

\* The test of one candidate line: its first cell is a piece and the four cells
\* hold the same value.
LineWon(board, line) ==
    /\ board[line[1][1]][line[1][2]] # EMPTY
    /\ \A i \in 1 .. 4 :
          board[line[i][1]][line[i][2]] = board[line[1][1]][line[1][2]]

\* check_winner(return_positions=True): the first candidate line, in scan
\* order, that is won, with its owner; (None, []) when there is none.
check_winner_positions(s) ==
    LET hits == {k \in 1 .. Len(ScanOrder) : LineWon(s.board, ScanOrder[k])}
    IN  IF hits = {}
        THEN [winner |-> None, positions |-> <<>>]
        ELSE LET line == ScanOrder[Min(hits)]
             IN  [winner |-> s.board[line[1][1]][line[1][2]], positions |-> line]

\* check_winner(): the winner alone.
check_winner(s) == check_winner_positions(s).winner

\* Mutant of is_full: the bottom row is inspected instead of the top row.
is_full_bottom_row(s) == \A c \in Cols : s.board[ROWS - 1][c] # EMPTY

is_full(s) == \A c \in Cols : s.board[0][c] # EMPTY

\* Mutant of is_terminal: a full board without a winner is not terminal.
is_terminal_winner_only(s) == check_winner(s) # None

is_terminal(s) == check_winner(s) # None \/ is_full(s)

\* ------------------------------------------------------------ MCTSNode
\* Mutant of MCTSNode: a new node counts its creation as a visit.
MCTSNode_counts_creation(s, parent, move) ==
    [state |-> s,
     parent |-> parent,
     move |-> move,
     children |-> <<>>,
     visits |-> 1,
     wins |-> 0,
     untried_moves |-> IF ~is_terminal(s) THEN get_legal_moves(s) ELSE <<>>]

\* MCTSNode.__init__: no children, no visits, no wins; the untried moves are the
\* legal moves of a non-terminal state and none for a terminal one.
MCTSNode(s, parent, move) ==
    [state |-> s,
     parent |-> parent,
     move |-> move,
     children |-> <<>>,
     visits |-> 0,
     wins |-> 0,
     untried_moves |-> IF ~is_terminal(s) THEN get_legal_moves(s) ELSE <<>>]

is_fully_expanded(n) == Len(n.untried_moves) = 0

\* MCTSNode.is_terminal
node_is_terminal(n) == is_terminal(n.state)

\* math.log(n) in millionths, for 1 <= n <= 12.
LogMicro ==
    <<0, 693147, 1098612, 1386294, 1609438, 1791759,
      1945910, 2079442, 2197225, 2302585, 2397895, 2484907>>

\* The integer square root of x, lo <= result <= hi.
RECURSIVE ISqrtIn(_, _, _)
ISqrtIn(x, lo, hi) ==
    IF lo >= hi
    THEN lo
    ELSE LET mid == (lo + hi + 1) \div 2
         IN  IF mid * mid <= x THEN ISqrtIn(x, mid, hi) ELSE ISqrtIn(x, lo, mid - 1)

ISqrt(x) == ISqrtIn(x, 0, 46340)

\* The UCB1 score of a child with visits >= 1 under a parent with
\* parent_visits >= 1, in ten-thousandths:
\*   wins / visits + exploration_constant * sqrt(log(parent_visits) / visits)
\* with wins in halves and exploration_constant in thousandths.
ucb_score(child, parent_visits, c) ==
    LET exploitation == (child.wins * 10000) \div (2 * child.visits)
        ratio == (LogMicro[parent_visits] * 100) \div child.visits
        exploration == (c * ISqrt(ratio)) \div 1000
    IN  exploitation + exploration

\* Mutant of select_child_uct: with all children scored, a child of the lowest
\* score is chosen.
select_child_uct_lowest(tree, n, c) ==
    LET self == tree[n]
        kids == self.children
        unvisited == {k \in 1 .. Len(kids) : tree[kids[k]].visits = 0}
        scored == IF unvisited = {}
                  THEN 1 .. Len(kids)
                  ELSE 1 .. (Min(unvisited) - 1)
        worst == {k \in scored :
                     \A j \in scored :
                         ucb_score(tree[kids[k]], self.visits, c)
                             <= ucb_score(tree[kids[j]], self.visits, c)}
    IN  IF scored # {} /\ self.visits = 0
        THEN [raises |-> TRUE, choices |-> {}, scored |-> scored]
        ELSE IF unvisited # {}
        THEN [raises |-> FALSE, choices |-> {kids[Min(unvisited)]}, scored |-> scored]
        ELSE IF kids = <<>>
        THEN [raises |-> TRUE, choices |-> {}, scored |-> scored]
        ELSE [raises |-> FALSE, choices |-> {kids[k] : k \in worst}, scored |-> scored]

\* select_child_uct on node n of tree: the loop over n's children in list order.
\* The first child with no visits is returned at once; every child before it
\* (every child, when all are visited) has its score evaluated, which raises
\* (math.log(0)) when n itself has no visits; with all children scored the
\* result is a random choice among the best, which raises on an empty list.
select_child_uct(tree, n, c) ==
    LET self == tree[n]
        kids == self.children
        unvisited == {k \in 1 .. Len(kids) : tree[kids[k]].visits = 0}
        scored == IF unvisited = {}
                  THEN 1 .. Len(kids)
                  ELSE 1 .. (Min(unvisited) - 1)
        best == {k \in scored :
                    \A j \in scored :
                        ucb_score(tree[kids[j]], self.visits, c)
                            <= ucb_score(tree[kids[k]], self.visits, c)}
    IN  IF scored # {} /\ self.visits = 0
        THEN [raises |-> TRUE, choices |-> {}, scored |-> scored]
        ELSE IF unvisited # {}
        THEN [raises |-> FALSE, choices |-> {kids[Min(unvisited)]}, scored |-> scored]
        ELSE IF kids = <<>>
        THEN [raises |-> TRUE, choices |-> {}, scored |-> scored]
        ELSE [raises |-> FALSE, choices |-> {kids[k] : k \in best}, scored |-> scored]

\* list.remove(x): the list without its first x.
Remove(seq, x) ==
    LET first == Min({k \in 1 .. Len(seq) : seq[k] = x})
    IN  [k \in 1 .. (Len(seq) - 1) |-> IF k < first THEN seq[k] ELSE seq[k + 1]]

\* Mutant of expand: the chosen move stays among the untried moves.
expand_keeps_untried(tree, n, move) ==
    LET new_state == make_move(clone(tree[n].state), move).state
        child == MCTSNode(new_state, n, move)
    IN  Append([tree EXCEPT ![n].children = Append(@, Len(tree) + 1)], child)

\* Mutant of expand: the new node has no parent link.
expand_orphan(tree, n, move) ==
    LET new_state == make_move(clone(tree[n].state), move).state
        child == MCTSNode(new_state, 0, move)
    IN  Append([tree EXCEPT ![n].untried_moves = Remove(@, move),
                            ![n].children = Append(@, Len(tree) + 1)],
               child)

\* expand on node n of tree with the randomly chosen untried move: the move
\* leaves n's untried moves, and a new node (the last of the tree) holding n's
\* state with the move applied becomes the last child of n.
expand(tree, n, move) ==
    LET new_state == make_move(clone(tree[n].state), move).state
        child == MCTSNode(new_state, n, move)
    IN  Append([tree EXCEPT ![n].untried_moves = Remove(@, move),
                            ![n].children = Append(@, Len(tree) + 1)],
               child)

\* Mutant of best_child: the child of the highest win rate.
best_child_by_win_rate(tree, n) ==
    LET kids == tree[n].children
    IN  IF kids = <<>>
        THEN 0
        ELSE kids[Min({k \in 1 .. Len(kids) :
                          \A j \in 1 .. Len(kids) :
                              tree[kids[j]].wins * tree[kids[k]].visits
                                  <= tree[kids[k]].wins * tree[kids[j]].visits})]

\* Mutant of best_child: among the most visited children, the last of the list.
best_child_last_most_visited(tree, n) ==
    LET kids == tree[n].children
    IN  IF kids = <<>>
        THEN 0
        ELSE kids[Max({k \in 1 .. Len(kids) :
                          \A j \in 1 .. Len(kids) :
                              tree[kids[j]].visits <= tree[kids[k]].visits})]

\* best_child on node n of tree: None (0) without children, else the first
\* child, in list order, of the largest visit count (Python's max).
best_child(tree, n) ==
    LET kids == tree[n].children
    IN  IF kids = <<>>
        THEN 0
        ELSE kids[Min({k \in 1 .. Len(kids) :
                          \A j \in 1 .. Len(kids) :
                              tree[kids[j]].visits <= tree[kids[k]].visits})]

\* Mutant of update: the reward is added, the visit is not counted.
update_wins_only(n, reward) == [n EXCEPT !.wins = @ + reward]

\* update: one more visit, and the reward added to the wins.
update(n, reward) == [n EXCEPT !.visits = @ + 1, !.wins = @ + reward]

\* Mutant of evaluate_terminal_state: 1.0 for a win and 0.0 for a loss swapped.
evaluate_terminal_state_swapped(s, player) ==
    LET winner == check_winner(s)
    IN  IF winner = None THEN 1 ELSE IF winner = player THEN 0 ELSE 2

\* evaluate_terminal_state: 0.5 without a winner, 1.0 when player won, else 0.0.
evaluate_terminal_state(s, player) ==
    LET winner == check_winner(s)
    IN  IF winner = None THEN 1 ELSE IF winner = player THEN 2 ELSE 0

\* ------------------------------------------------------------ mcts_search
\* The statistics of one root child with visits >= 1: its move, its win rate in
\* hundredths of a percent (wins / visits * 100), its visits and its UCB1
\* score against the root's visits.
move_stat(tree, k, c) ==
    [move |-> tree[k].move,
     win_rate |-> (tree[k].wins * 10000) \div (2 * tree[k].visits),
     visits |-> tree[k].visits,
     ucb_score |-> ucb_score(tree[k], tree[1].visits, c)]

\* Mutant of sort_by_visits: the list is left in the order of the children.
sort_by_visits_omitted(seq) == seq

\* list.sort(key=visits, reverse=True): descending by visits, entries of equal
\* visits keeping their order (the sort is stable). One insertion per entry.
RECURSIVE sort_by_visits(_)
sort_by_visits(seq) ==
    IF seq = <<>>
    THEN <<>>
    ELSE LET rest == sort_by_visits(SubSeq(seq, 1, Len(seq) - 1))
             x == seq[Len(seq)]
             before == {k \in 1 .. Len(rest) : rest[k].visits >= x.visits}
             at == IF before = {} THEN 0 ELSE Max(before)
         IN  SubSeq(rest, 1, at) \o <<x>> \o SubSeq(rest, at + 1, Len(rest))

\* The statistics loop: one entry per root child with visits > 0, in list order.
move_stats(tree, c) ==
    LET kids == SelectSeq(tree[1].children, LAMBDA k : tree[k].visits > 0)
    IN  [i \in 1 .. Len(kids) |-> move_stat(tree, kids[i], c)]

\* The statistics loop evaluates math.log(root.visits) for every child with
\* visits > 0: it raises when the root has no visits.
stats_raise(tree) ==
    /\ tree[1].visits = 0
    /\ \E i \in 1 .. Len(tree[1].children) : tree[tree[1].children[i]].visits > 0

\* The dictionary mcts_search returns beside the move.
make_stats(tree, c) ==
    LET best == best_child(tree, 1)
    IN  [selected_move |-> IF best # 0 THEN tree[best].move ELSE None,
         selected_win_rate |->
             IF best # 0 /\ tree[best].visits > 0
             THEN (tree[best].wins * 10000) \div (2 * tree[best].visits)
             ELSE 0,
         selected_visits |-> IF best # 0 THEN tree[best].visits ELSE 0,
         total_simulations |-> tree[1].visits,
         all_moves |-> sort_by_visits(move_stats(tree, c))]

\* Mutant of backprop_reward: the flipped reward computed as result - 1.0.
backprop_reward_negated(tree, n, res, player) ==
    IF tree[n].parent = 0
    THEN res
    ELSE IF tree[tree[n].parent].state.current_player = player
         THEN res
         ELSE res - 2

\* Mutant of backprop_reward: the two perspectives swapped.
backprop_reward_swapped(tree, n, res, player) ==
    IF tree[n].parent = 0
    THEN res
    ELSE IF tree[tree[n].parent].state.current_player = player
         THEN 2 - res
         ELSE res

\* Mutant of backprop_reward: every node gets the result from the root
\* player's view.
backprop_reward_root_view(tree, n, res, player) == res

\* The reward backpropagation adds to node n: the result as it is at the root
\* and where the root player moved into n, else 1.0 - result.
backprop_reward(tree, n, res, player) ==
    IF tree[n].parent = 0
    THEN res
    ELSE IF tree[tree[n].parent].state.current_player = player
         THEN res
         ELSE 2 - res

\* Mutant of selection_continues: terminal nodes are not excluded.
selection_continues_ignores_terminal(n) == is_fully_expanded(n)

\* The selection loop's condition.
selection_continues(n) == is_fully_expanded(n) /\ ~node_is_terminal(n)

\* The expansion phase's condition.
expansion_applies(n) == ~node_is_terminal(n) /\ ~is_fully_expanded(n)

\* ------------------------------------------------------------ reference scan
\* The four line directions, as (row step, column step).
Directions == {<<0, 1>>, <<1, 0>>, <<1, 1>>, <<-1, 1>>}

InBoard(r, c) == r \in Rows /\ c \in Cols

\* The i-th cell (i in 0 .. 3) of the line from (r, c) in direction d.
LineCell(r, c, d, i) == <<r + i * d[1], c + i * d[2]>>

\* Reference scan: every line of four cells, given by its first cell and its
\* direction, that lies in the board.
RefLines ==
    {<<l[1], l[2], l[3]>> : l \in
        {l \in Rows \X Cols \X Directions :
            \A i \in 0 .. 3 : InBoard(LineCell(l[1], l[2], l[3], i)[1],
                                      LineCell(l[1], l[2], l[3], i)[2])}}

\* The lines of the reference scan whose four cells hold the same player.
RefWonLines(board) ==
    {l \in RefLines :
        /\ board[l[1]][l[2]] # EMPTY
        /\ \A i \in 1 .. 3 :
              board[LineCell(l[1], l[2], l[3], i)[1]][LineCell(l[1], l[2], l[3], i)[2]]
                  = board[l[1]][l[2]]}

\* The players the reference scan finds a line of.
RefOwners(board) == {board[l[1]][l[2]] : l \in RefWonLines(board)}

\* ------------------------------------------------------------ inputs
\* A full board without any four in a row: pairs of rows alternate, and
\* neighbouring columns hold opposite pieces.
BaseCell(r, c) ==
    LET low == IF ((ROWS - 1 - r) \div 2) % 2 = 0 THEN PLAYER1 ELSE PLAYER2
    IN  IF c % 2 = 0 THEN low ELSE other_player(low)

\* The columns of a start board that are not full.
OpenCols == {3, 4}

\* What the top MaxOpen cells of an open column hold, bottom-up: up to MaxOpen
\* pieces of either player, the cells above them empty.
Stacks == UNION {[1 .. k -> Players] : k \in 0 .. MaxOpen}

\* The start board whose open columns hold the stacks fill[c].
StartBoard(fill) ==
    [r \in Rows |-> [c \in Cols |->
        IF c \in OpenCols /\ r < MaxOpen
        THEN IF MaxOpen - r <= Len(fill[c]) THEN fill[c][MaxOpen - r] ELSE EMPTY
        ELSE BaseCell(r, c)]]

\* The start states: every such board on which at most one player has four in a
\* row, with either player to move.
StartStates ==
    {Connect4State(b, p) :
        b \in {StartBoard(fill) : fill \in
                  {f \in [OpenCols -> Stacks] :
                      Cardinality(RefOwners(StartBoard(f))) <= 1}},
        p \in Players}

\* The exploration constants passed to mcts_search, in thousandths (the
\* default 1.414).
ExplorationConstants == {1414}

\* Exploration constants that are not positive, in thousandths.
NonPositiveConstants == {0}

\* The empty dictionary.
EmptyDict == [x \in {} |-> 0]

\* ------------------------------------------------------------ state
VARIABLES
    root_state,             \* mcts_search: the caller's state
    iterations,             \* mcts_search: the iteration count asked for
    exploration_constant,   \* mcts_search: the UCB1 constant, in thousandths
    root_player,            \* the player to move at the root
    nodes,                  \* the tree: nodes[1] is root_node
    pc,                     \* where mcts_search stands
    it,                     \* iterations of the main loop completed
    node,                   \* the loop's current node (0: None)
    state,                  \* the loop's running state
    simulation_state,       \* simulate_random_playout's state
    result,                 \* the playout's outcome, in halves
    best_move,              \* the move returned
    stats,                  \* the dictionary returned
    gs,                     \* a Connect4State object driven through make_move
    calls,                  \* make_move calls made on gs
    last,                   \* the last make_move call on gs
    uct,                    \* the last select_child_uct call made on its own
    column_stats,           \* the module's global column_stats
    random_source,          \* the values the random module will deliver
    run,                    \* which of two successive mcts_search calls is on
    first,                  \* what the first of the two calls built and returned
    heap,                   \* the Connect4State objects allocated, by identity
    ref,                    \* which object each name and each node's state refers to
    astar                   \* src/main.py: the globals and run_astar's locals

search_vars ==
    <<root_state, iterations, exploration_constant, root_player, nodes, pc, it,
      node, state, simulation_state, result, best_move, stats>>
rules_vars == <<gs, calls, last>>
heap_vars == <<heap, ref>>
aux_vars == <<uct, column_stats, random_source, run, first, heap_vars, astar>>
vars == <<search_vars, rules_vars, aux_vars>>

\* No select_child_uct call made yet.
NoUct == [raises |-> FALSE, child |-> 0, evaluated |-> 0]

\* column_stats as the module creates it: no wins recorded for any column.
NoColumnStats == [c \in Cols |-> [player1_wins |-> 0, player2_wins |-> 0]]

\* Nothing built or returned yet.
NoOutcome == [nodes |-> <<>>, best_move |-> None, stats |-> EmptyDict]

\* No object identities tracked: no object, no reference (0: unbound).
NoRef == [root_state |-> 0, state |-> 0, simulation_state |-> 0, nodes |-> <<>>]

\* current_path = None, as the empty sequence: a path that run_astar builds
\* holds one cell at least.
NoPath == <<>>

\* src/main.py as loaded: no walls, no path, run_astar not called; the start and
\* goal cells are placeholders here.
NoAstar ==
    [pc |-> "idle",
     walls |-> {},
     start |-> <<0, 0>>,
     goal |-> <<0, 0>>,
     current_path |-> NoPath,
     current_closed |-> {},
     path_cost |-> 0,
     g_scores |-> EmptyDict,
     open_heap |-> {},
     open_set |-> {},
     closed_set |-> {},
     g_score |-> EmptyDict,
     f_score |-> EmptyDict,
     came_from |-> EmptyDict]

\* The variables outside a single mcts_search call, at their start values.
AuxInit ==
    /\ uct = NoUct
    /\ column_stats = NoColumnStats
    /\ random_source = <<>>
    /\ run = 1
    /\ first = NoOutcome
    /\ heap = <<>>
    /\ ref = NoRef
    /\ astar = NoAstar

NoCall == [col |-> None, ok |-> TRUE, before |-> Connect4State(EmptyBoard, PLAYER1)]

\* mcts_search is about to be called on a start state.
Init ==
    /\ root_state \in StartStates
    /\ iterations \in 0 .. MaxIter
    /\ exploration_constant \in ExplorationConstants
    /\ root_player = None
    /\ nodes = <<>>
    /\ pc = "call"
    /\ it = 0
    /\ node = 0
    /\ state = root_state
    /\ simulation_state = root_state
    /\ result = 0
    /\ best_move = None
    /\ stats = EmptyDict
    /\ gs = Connect4State(EmptyBoard, PLAYER1)
    /\ calls = 0
    /\ last = NoCall
    /\ AuxInit

\* Mutant of Call: no check for a terminal state.
Call_no_terminal_check ==
    /\ pc = "call"
    /\ root_player' = root_state.current_player
    /\ nodes' = <<MCTSNode(clone(root_state), 0, None)>>
    /\ pc' = "loop"
    /\ UNCHANGED <<best_move, stats>>
    /\ UNCHANGED <<root_state, iterations, exploration_constant, it, node, state,
                   simulation_state, result, rules_vars, aux_vars>>

\* mcts_search up to its main loop: a terminal state returns (None, {}); else
\* the root player is recorded and the root node built on a clone.
Call ==
    /\ pc = "call"
    /\ IF is_terminal(root_state)
       THEN /\ best_move' = None
            /\ stats' = EmptyDict
            /\ pc' = "done"
            /\ UNCHANGED <<root_player, nodes>>
       ELSE /\ root_player' = root_state.current_player
            /\ nodes' = <<MCTSNode(clone(root_state), 0, None)>>
            /\ pc' = "loop"
            /\ UNCHANGED <<best_move, stats>>
    /\ UNCHANGED <<root_state, iterations, exploration_constant, it, node, state,
                   simulation_state, result, rules_vars, aux_vars>>

\* for _ in range(iterations): the next iteration starts at the root on a
\* fresh clone of the caller's state, or the loop ends.
Iterate ==
    /\ pc = "loop"
    /\ IF it < iterations
       THEN /\ node' = 1
            /\ state' = clone(root_state)
            /\ pc' = "select"
       ELSE /\ pc' = "finish"
            /\ UNCHANGED <<node, state>>
    /\ UNCHANGED <<root_state, iterations, exploration_constant, root_player, nodes,
                   it, simulation_state, result, best_move, stats, rules_vars, aux_vars>>

\* Mutant of Select: the loop descends without replaying the child's move on
\* the running state.
Select_without_replay ==
    /\ pc = "select"
    /\ IF selection_continues(nodes[node])
       THEN LET r == select_child_uct(nodes, node, exploration_constant)
            IN  IF r.raises
                THEN pc' = "raised" /\ UNCHANGED <<node, state>>
                ELSE \E child \in r.choices :
                        /\ node' = child
                        /\ state' = state
                        /\ pc' = "select"
       ELSE pc' = "expand" /\ UNCHANGED <<node, state>>
    /\ UNCHANGED <<root_state, iterations, exploration_constant, root_player, nodes,
                   it, simulation_state, result, best_move, stats, rules_vars, aux_vars>>

\* One round of the selection loop: descend to a child chosen by
\* select_child_uct and replay its move on the running state, or leave the loop.
Select ==
    /\ pc = "select"
    /\ IF selection_continues(nodes[node])
       THEN LET r == select_child_uct(nodes, node, exploration_constant)
            IN  IF r.raises
                THEN pc' = "raised" /\ UNCHANGED <<node, state>>
                ELSE \E child \in r.choices :
                        /\ node' = child
                        /\ state' = make_move(state, nodes[child].move).state
                        /\ pc' = "select"
       ELSE pc' = "expand" /\ UNCHANGED <<node, state>>
    /\ UNCHANGED <<root_state, iterations, exploration_constant, root_player, nodes,
                   it, simulation_state, result, best_move, stats, rules_vars, aux_vars>>

\* The expansion phase: a non-terminal node with untried moves gets one new
\* child for a randomly chosen untried move, and the loop moves into it on a
\* clone of its state. expand returning None makes node.state raise.
Expand ==
    /\ pc = "expand"
    /\ IF expansion_applies(nodes[node])
       THEN IF nodes[node].untried_moves = <<>>
            THEN pc' = "raised" /\ UNCHANGED <<nodes, node, state>>
            ELSE \E k \in 1 .. Len(nodes[node].untried_moves) :
                    LET tree == expand(nodes, node, nodes[node].untried_moves[k])
                    IN  /\ nodes' = tree
                        /\ node' = Len(tree)
                        /\ state' = clone(tree[Len(tree)].state)
                        /\ pc' = "simulate"
       ELSE pc' = "simulate" /\ UNCHANGED <<nodes, node, state>>
    /\ UNCHANGED <<root_state, iterations, exploration_constant, root_player, it,
                   simulation_state, result, best_move, stats, rules_vars, aux_vars>>

\* simulate_random_playout starts on a clone of the running state.
Simulate ==
    /\ pc = "simulate"
    /\ simulation_state' = clone(state)
    /\ pc' = "playout"
    /\ UNCHANGED <<root_state, iterations, exploration_constant, root_player, nodes,
                   it, node, state, result, best_move, stats, rules_vars, aux_vars>>

\* One round of the playout loop: a random legal move, or, at a terminal state
\* (or without legal moves), the evaluation for the root player.
Playout ==
    /\ pc = "playout"
    /\ IF ~is_terminal(simulation_state) /\ get_legal_moves(simulation_state) # <<>>
       THEN /\ \E k \in 1 .. Len(get_legal_moves(simulation_state)) :
                  simulation_state' =
                      make_move(simulation_state,
                                get_legal_moves(simulation_state)[k]).state
            /\ UNCHANGED <<result, pc>>
       ELSE /\ result' = evaluate_terminal_state(simulation_state, root_player)
            /\ pc' = "backprop"
            /\ UNCHANGED simulation_state
    /\ UNCHANGED <<root_state, iterations, exploration_constant, root_player, nodes,
                   it, node, state, best_move, stats, rules_vars, aux_vars>>

\* Mutant of Backpropagate: the loop runs while node.parent is not None, so it
\* stops below the root.
Backpropagate_stops_below_root ==
    /\ pc = "backprop"
    /\ IF node # 0 /\ nodes[node].parent # 0
       THEN /\ nodes' = [nodes EXCEPT
                           ![node] = update(@, backprop_reward(nodes, node, result,
                                                               root_player))]
            /\ node' = nodes[node].parent
            /\ UNCHANGED <<it, pc>>
       ELSE /\ it' = it + 1
            /\ pc' = "loop"
            /\ UNCHANGED <<nodes, node>>
    /\ UNCHANGED <<root_state, iterations, exploration_constant, root_player,
                   state, simulation_state, result, best_move, stats, rules_vars, aux_vars>>

\* One round of the backpropagation loop: update the current node and move to
\* its parent; past the root the iteration is complete.
Backpropagate ==
    /\ pc = "backprop"
    /\ IF node # 0
       THEN /\ nodes' = [nodes EXCEPT
                           ![node] = update(@, backprop_reward(nodes, node, result,
                                                               root_player))]
            /\ node' = nodes[node].parent
            /\ UNCHANGED <<it, pc>>
       ELSE /\ it' = it + 1
            /\ pc' = "loop"
            /\ UNCHANGED <<nodes, node>>
    /\ UNCHANGED <<root_state, iterations, exploration_constant, root_player,
                   state, simulation_state, result, best_move, stats, rules_vars, aux_vars>>

\* Mutant of Finish: among the most visited root children, the move returned is
\* that of the child whose column has the most player1_wins in column_stats.
Finish_by_column_stats ==
    /\ pc = "finish"
    /\ IF stats_raise(nodes)
       THEN pc' = "raised" /\ UNCHANGED <<best_move, stats>>
       ELSE LET kids == nodes[1].children
                most == {k \in 1 .. Len(kids) :
                            \A j \in 1 .. Len(kids) :
                                nodes[kids[j]].visits <= nodes[kids[k]].visits}
                pick == Min({k \in most :
                                \A j \in most :
                                    column_stats[nodes[kids[j]].move].player1_wins
                                        <= column_stats[nodes[kids[k]].move].player1_wins})
            IN  /\ best_move' = (IF kids = <<>> THEN None ELSE nodes[kids[pick]].move)
                /\ stats' = make_stats(nodes, exploration_constant)
                /\ pc' = "done"
    /\ UNCHANGED <<root_state, iterations, exploration_constant, root_player, nodes,
                   it, node, state, simulation_state, result, rules_vars, aux_vars>>

\* Mutant of Finish: without a best child the first legal move is returned.
Finish_guesses_move ==
    /\ pc = "finish"
    /\ IF stats_raise(nodes)
       THEN pc' = "raised" /\ UNCHANGED <<best_move, stats>>
       ELSE /\ best_move' = (IF best_child(nodes, 1) = 0
                             THEN get_legal_moves(root_state)[1]
                             ELSE nodes[best_child(nodes, 1)].move)
            /\ stats' = make_stats(nodes, exploration_constant)
            /\ pc' = "done"
    /\ UNCHANGED <<root_state, iterations, exploration_constant, root_player, nodes,
                   it, node, state, simulation_state, result, rules_vars, aux_vars>>

\* After the loop: the most visited root child's move and the statistics.
Finish ==
    /\ pc = "finish"
    /\ IF stats_raise(nodes)
       THEN pc' = "raised" /\ UNCHANGED <<best_move, stats>>
       ELSE /\ best_move' = (IF best_child(nodes, 1) = 0
                             THEN None
                             ELSE nodes[best_child(nodes, 1)].move)
            /\ stats' = make_stats(nodes, exploration_constant)
            /\ pc' = "done"
    /\ UNCHANGED <<root_state, iterations, exploration_constant, root_player, nodes,
                   it, node, state, simulation_state, result, rules_vars, aux_vars>>

Next ==
    \/ Call
    \/ Iterate
    \/ Select
    \/ Expand
    \/ Simulate
    \/ Playout
    \/ Backpropagate
    \/ Finish

Spec == Init /\ [][Next]_vars

\* ------------------------------------------------------------ configuration
\* mcts_search is about to be called with an exploration constant that is not
\* positive, and with an iteration count that may be zero.
ConfigInit ==
    /\ root_state \in StartStates
    /\ iterations \in 0 .. MaxIter
    /\ exploration_constant \in NonPositiveConstants
    /\ root_player = None
    /\ nodes = <<>>
    /\ pc = "call"
    /\ it = 0
    /\ node = 0
    /\ state = root_state
    /\ simulation_state = root_state
    /\ result = 0
    /\ best_move = None
    /\ stats = EmptyDict
    /\ gs = Connect4State(EmptyBoard, PLAYER1)
    /\ calls = 0
    /\ last = NoCall
    /\ AuxInit

SpecConfig == ConfigInit /\ [][Next]_vars

\* ------------------------------------------------------------ rule engine alone
\* A board holding a line of four pieces of player p from (r, c) in direction
\* d, every cell under a piece of the line filled (no piece floats).
LineBoard(r, c, d, p) ==
    [rr \in Rows |-> [cc \in Cols |->
        IF \E i \in 0 .. 3 : LineCell(r, c, d, i) = <<rr, cc>>
        THEN p
        ELSE IF \E i \in 0 .. 3 :
                    LineCell(r, c, d, i)[2] = cc /\ LineCell(r, c, d, i)[1] < rr
             THEN BaseCell(rr, cc)
             ELSE EMPTY]]

LineBoards ==
    {LineBoard(r, c, d, p) :
        <<r, c, d, p>> \in {q \in Rows \X Cols \X Directions \X Players :
                               \A i \in 0 .. 3 :
                                   InBoard(LineCell(q[1], q[2], q[3], i)[1],
                                           LineCell(q[1], q[2], q[3], i)[2])}}

\* create_forced_win_position of the test suite: three PLAYER1 pieces stacked
\* in column 3.
ForcedWinBoard ==
    [EmptyBoard EXCEPT ![5][3] = PLAYER1, ![4][3] = PLAYER1, ![3][3] = PLAYER1]

\* create_forced_loss_position of the test suite: three PLAYER2 pieces on the
\* bottom row, columns 0 to 2.
ForcedLossBoard ==
    [EmptyBoard EXCEPT ![5][0] = PLAYER2, ![5][1] = PLAYER2, ![5][2] = PLAYER2]

\* The position after the legal moves 0, 1, 0, 1, 0, 1 from the empty board.
RaceBoard ==
    [EmptyBoard EXCEPT ![5][0] = PLAYER1, ![4][0] = PLAYER1, ![3][0] = PLAYER1,
                       ![5][1] = PLAYER2, ![4][1] = PLAYER2, ![3][1] = PLAYER2]

\* The position after the legal moves 0, 0, 1, 1, 3, 3, 4, 4 from the empty
\* board: PLAYER1 holds the bottom row but for column 2, PLAYER2 the cells above.
SplitRowBoard ==
    [EmptyBoard EXCEPT ![5][0] = PLAYER1, ![5][1] = PLAYER1,
                       ![5][3] = PLAYER1, ![5][4] = PLAYER1,
                       ![4][0] = PLAYER2, ![4][1] = PLAYER2,
                       ![4][3] = PLAYER2, ![4][4] = PLAYER2]

RuleStates ==
    StartStates
    \cup {Connect4State(b, p) :
             b \in {x \in LineBoards : Cardinality(RefOwners(x)) <= 1}, p \in Players}
    \cup {Connect4State(EmptyBoard, PLAYER1),
          Connect4State(ForcedWinBoard, PLAYER1),
          Connect4State(ForcedLossBoard, PLAYER1),
          Connect4State(RaceBoard, PLAYER1),
          Connect4State(SplitRowBoard, PLAYER1)}

\* A Connect4State object on which make_move is about to be called.
RulesInit ==
    /\ gs \in RuleStates
    /\ calls = 0
    /\ last = [col |-> None, ok |-> TRUE, before |-> gs]
    /\ root_state = Connect4State(EmptyBoard, PLAYER1)
    /\ iterations = 0
    /\ exploration_constant = 1414
    /\ root_player = None
    /\ nodes = <<>>
    /\ pc = "rules"
    /\ it = 0
    /\ node = 0
    /\ state = root_state
    /\ simulation_state = root_state
    /\ result = 0
    /\ best_move = None
    /\ stats = EmptyDict
    /\ AuxInit

\* gs.make_move(col), on any column, full or not.
MakeMove ==
    /\ calls < MaxCalls
    /\ \E col \in Cols :
          /\ gs' = make_move(gs, col).state
          /\ last' = [col |-> col, ok |-> make_move(gs, col).ok, before |-> gs]
    /\ calls' = calls + 1
    /\ UNCHANGED <<search_vars, aux_vars>>

RulesNext == MakeMove

SpecRules == RulesInit /\ [][RulesNext]_vars

\* ------------------------------------------------------------ claims
\* mcts_search has returned.
Returned == pc = "done"

\* The children of the root, as node indices.
RootChildren == {nodes[1].children[i] : i \in 1 .. Len(nodes[1].children)}

\* C1: when mcts_search returns on a non-terminal input with iteration count
\* N, the root's visits, reported as total_simulations, equal N; at every
\* iteration boundary the root's visits equal the iterations completed.
C1_RootVisitsEqualIterations ==
    /\ (Returned /\ ~is_terminal(root_state)) =>
          /\ nodes[1].visits = iterations
          /\ stats.total_simulations = iterations
    /\ pc \in {"loop", "finish"} => nodes[1].visits = it

C1_Witness ==
    /\ Returned
    /\ ~is_terminal(root_state)
    /\ iterations >= 3
    /\ Len(nodes) = iterations + 1

\* C2: in every state of a search every node has 0 <= wins <= visits (wins in
\* halves: 0 <= wins <= 2 * visits), and wins = 0 when visits = 0.
C2_WinsWithinVisits ==
    \A k \in 1 .. Len(nodes) :
        /\ 0 <= nodes[k].wins
        /\ nodes[k].wins <= 2 * nodes[k].visits
        /\ nodes[k].visits = 0 => nodes[k].wins = 0

C2_Witness ==
    /\ pc = "backprop"
    /\ \E k \in 1 .. Len(nodes) :
          /\ nodes[k].parent # 0
          /\ nodes[k].visits >= 2
          /\ nodes[k].wins > 0
          /\ nodes[k].wins < 2 * nodes[k].visits
    /\ \E k \in 1 .. Len(nodes) : nodes[k].visits = 0

\* C3 (as claimed): on a terminal input mcts_search returns no move and a
\* total_simulations of zero.
C3_TerminalReturnsZeroSimulations ==
    (Returned /\ is_terminal(root_state)) =>
        /\ best_move = None
        /\ "total_simulations" \in DOMAIN stats
        /\ stats.total_simulations = 0

\* C3 (amended): on a terminal input mcts_search returns no move and the empty
\* dictionary (no total_simulations entry at all), without raising, without
\* building a root node and without running an iteration.
C3_TerminalReturnsEmpty ==
    is_terminal(root_state) =>
        /\ pc \in {"call", "done"}
        /\ nodes = <<>>
        /\ it = 0
        /\ Returned => (best_move = None /\ DOMAIN stats = {})

C3_Witness ==
    /\ Returned
    /\ is_terminal(root_state)
    /\ check_winner(root_state) # None
    /\ iterations >= 1

\* C4: on a non-terminal input with iterations >= 1 mcts_search never raises
\* and returns a legal move of the input state.
C4_NeverRaisesReturnsLegalMove ==
    /\ pc # "raised"
    /\ (Returned /\ ~is_terminal(root_state) /\ iterations >= 1) =>
          \E i \in 1 .. Len(get_legal_moves(root_state)) :
              get_legal_moves(root_state)[i] = best_move

\* A search that went through a selection descent into a terminal node and
\* returned.
C4_Witness ==
    /\ Returned
    /\ ~is_terminal(root_state)
    /\ iterations >= 3
    /\ best_move # None
    /\ \E k \in RootChildren : nodes[k].visits >= 2 /\ node_is_terminal(nodes[k])

\* C5: the move returned is the move of a root child whose visits are at least
\* those of every other root child.
C5_ReturnsMostVisitedChild ==
    (Returned /\ best_move # None) =>
        \E k \in RootChildren :
            /\ nodes[k].move = best_move
            /\ \A j \in RootChildren : nodes[j].visits <= nodes[k].visits

\* The returned child has a strictly lower win rate than another root child.
C5_Witness ==
    /\ Returned
    /\ best_move # None
    /\ \E k, j \in RootChildren :
          /\ nodes[k].move = best_move
          /\ nodes[j].visits > 0
          /\ nodes[j].visits < nodes[k].visits
          /\ nodes[j].wins * nodes[k].visits > nodes[k].wins * nodes[j].visits

\* The columns in which the player to move at s completes four in a row at once.
WinningMoves(s) ==
    {c \in Cols : s.board[0][c] = EMPTY
                  /\ check_winner(make_move(s, c).state) = s.current_player}

\* The columns in which the opponent of the player to move would complete four
\* in a row, were it the opponent's turn.
Threats(s) == WinningMoves([s EXCEPT !.current_player = other_player(@)])

\* The root children whose visits no other root child exceeds and no earlier
\* child of the list equals.
FirstMostVisited ==
    {nodes[1].children[i] : i \in
        {i \in 1 .. Len(nodes[1].children) :
            /\ \A j \in 1 .. Len(nodes[1].children) :
                  nodes[nodes[1].children[j]].visits <= nodes[nodes[1].children[i]].visits
            /\ \A j \in 1 .. (i - 1) :
                  nodes[nodes[1].children[j]].visits < nodes[nodes[1].children[i]].visits}}

\* C6 (as claimed): whenever the player to move has a column that completes
\* four in a row at once, mcts_search returns such a column.
C6_ReturnsWinningColumn ==
    (Returned /\ ~is_terminal(root_state) /\ iterations >= 1
        /\ WinningMoves(root_state) # {}) =>
        best_move \in WinningMoves(root_state)

\* C6 (amended): a root child reached by an immediately winning column is
\* terminal, never gets children and has wins = visits (wins = 2 * visits in
\* halves) at all times; mcts_search returns the winning column when that child
\* has more visits than every other root child, and only when no other root
\* child has more visits than it.
C6_WinningChildCreditedAndReturnedIfMostVisited ==
    (nodes # <<>> /\ WinningMoves(root_state) # {}) =>
        /\ \A k \in RootChildren :
              nodes[k].move \in WinningMoves(root_state) =>
                  /\ node_is_terminal(nodes[k])
                  /\ nodes[k].children = <<>>
                  /\ nodes[k].wins = 2 * nodes[k].visits
                  /\ (Returned /\ \A j \in RootChildren \ {k} :
                                      nodes[j].visits < nodes[k].visits)
                        => best_move = nodes[k].move
        /\ (Returned /\ best_move \in WinningMoves(root_state)) =>
              \E k \in RootChildren :
                  /\ nodes[k].move = best_move
                  /\ \A j \in RootChildren : nodes[j].visits <= nodes[k].visits

\* The winning column was returned after its child was visited more than once.
C6_Witness ==
    /\ Returned
    /\ iterations >= 3
    /\ best_move \in WinningMoves(root_state)
    /\ Cardinality(RootChildren) >= 2
    /\ \E k \in RootChildren : nodes[k].move = best_move /\ nodes[k].visits >= 2

\* The opponent threatens in exactly one column and the mover cannot win at once.
ForcedBlock(s) == WinningMoves(s) = {} /\ Cardinality(Threats(s)) = 1

\* C7 (as claimed): in a forced block mcts_search returns the blocking column,
\* whose root child has the highest visit count among the root children.
C7_ReturnsBlockingColumn ==
    (Returned /\ ~is_terminal(root_state) /\ iterations >= 1
        /\ ForcedBlock(root_state)) =>
        /\ best_move \in Threats(root_state)
        /\ \E k \in RootChildren :
              /\ nodes[k].move = best_move
              /\ \A j \in RootChildren : nodes[j].visits <= nodes[k].visits

\* C7 (amended): in a forced block the move returned is that of the first root
\* child of the highest visit count, so the blocking column is returned exactly
\* when its root child is that child.
C7_BlockReturnedIffFirstMostVisited ==
    (Returned /\ ~is_terminal(root_state) /\ iterations >= 1
        /\ ForcedBlock(root_state)) =>
        /\ \E k \in FirstMostVisited : nodes[k].move = best_move
        /\ best_move \in Threats(root_state)
              <=> \E k \in FirstMostVisited : nodes[k].move \in Threats(root_state)

\* The blocking column was returned with another child tied on visits.
C7_Witness ==
    /\ Returned
    /\ ForcedBlock(root_state)
    /\ iterations >= 3
    /\ best_move \in Threats(root_state)
    /\ \E k, j \in RootChildren :
          k # j /\ nodes[k].move = best_move /\ nodes[j].visits = nodes[k].visits

\* C8: make_move on a column without an empty cell reports failure and leaves
\* every board cell and current_player as they were.
C8_FullColumnRejected ==
    (last.col # None /\ \A r \in Rows : last.before.board[r][last.col] # EMPTY) =>
        /\ last.ok = FALSE
        /\ \A r \in Rows : \A c \in Cols : gs.board[r][c] = last.before.board[r][c]
        /\ gs.current_player = last.before.current_player

C8_Witness ==
    /\ last.col # None
    /\ \A r \in Rows : last.before.board[r][last.col] # EMPTY
    /\ last.ok = FALSE
    /\ calls = 2

\* C9: a successful make_move(col) changes exactly one cell, the lowest empty
\* cell of col, to the piece of the player who was to move, and hands the turn
\* to the other player.
C9_MoveChangesOneCell ==
    (last.col # None /\ last.ok) =>
        /\ \E r \in Rows :
              /\ {q \in Rows \X Cols : gs.board[q[1]][q[2]] # last.before.board[q[1]][q[2]]}
                    = {<<r, last.col>>}
              /\ last.before.board[r][last.col] = EMPTY
              /\ \A r2 \in Rows : r2 > r => last.before.board[r2][last.col] # EMPTY
              /\ gs.board[r][last.col] = last.before.current_player
        /\ gs.current_player \in Players
        /\ gs.current_player # last.before.current_player

\* Two successful moves in a row, the second into a column with more than one
\* empty cell.
C9_Witness ==
    /\ calls = 2
    /\ last.ok
    /\ last.before.board[1][last.col] = EMPTY
    /\ last.before.current_player # PLAYER1

\* The place of a line in the fixed scan order: horizontal lines by row then
\* column, vertical lines by column then row, down-right and then up-right
\* diagonals by row then column of their first cell.
RefKey(l) ==
    LET rank == IF l[3] = <<0, 1>> THEN 1
                ELSE IF l[3] = <<1, 0>> THEN 2
                ELSE IF l[3] = <<1, 1>> THEN 3 ELSE 4
    IN  IF l[3] = <<1, 0>> THEN <<rank, l[2], l[1]>> ELSE <<rank, l[1], l[2]>>

RefBefore(a, b) ==
    \/ a[1] < b[1]
    \/ a[1] = b[1] /\ a[2] < b[2]
    \/ a[1] = b[1] /\ a[2] = b[2] /\ a[3] < b[3]

\* The scan-order part of C10: the line check_winner reports is the first won
\* line of the reference scan, and the winner is its owner.
FirstLineReported(s) ==
    LET won == RefWonLines(s.board)
    IN  won # {} =>
            LET l == CHOOSE l \in won :
                        \A m \in won : m = l \/ RefBefore(RefKey(l), RefKey(m))
            IN  /\ check_winner_positions(s).positions
                      = [i \in 1 .. 4 |-> LineCell(l[1], l[2], l[3], i - 1)]
                /\ check_winner(s) = s.board[l[1]][l[2]]

\* C10 (as claimed): check_winner returns p exactly when the reference scan
\* finds a line of p, None exactly when it finds no line, and reports the first
\* line in scan order.
C10_WinnerIffLine ==
    LET owners == RefOwners(gs.board)
    IN  /\ \A p \in Players : check_winner(gs) = p <=> p \in owners
        /\ check_winner(gs) = None <=> owners = {}
        /\ FirstLineReported(gs)

\* C10 (amended): check_winner returns None exactly when the reference scan
\* finds no line; otherwise it returns the owner of the first line in scan
\* order, so it returns p only if p has a line, and whenever p alone has one.
C10_WinnerIsFirstLineOwner ==
    LET owners == RefOwners(gs.board)
    IN  /\ check_winner(gs) = None <=> owners = {}
        /\ \A p \in Players :
              /\ check_winner(gs) = p => p \in owners
              /\ owners = {p} => check_winner(gs) = p
        /\ FirstLineReported(gs)

\* A move added a won line for its player on a board that then holds more than
\* one won line.
C10_Witness ==
    /\ calls >= 1
    /\ last.ok
    /\ check_winner(gs) = last.before.current_player
    /\ Cardinality(RefWonLines(gs.board)) >= 2
    /\ Cardinality(RefWonLines(last.before.board)) < Cardinality(RefWonLines(gs.board))

\* C11: the per-move statistics all_moves hold exactly one entry for every
\* child of the root, carrying that child's move and visits, and the entries
\* are in order of non-increasing visits.
C11_AllMovesOnePerChildSorted ==
    (Returned /\ ~is_terminal(root_state)) =>
        LET all == stats.all_moves
        IN  /\ Len(all) = Len(nodes[1].children)
            /\ \A k \in RootChildren :
                  Cardinality({i \in 1 .. Len(all) : all[i].move = nodes[k].move}) = 1
            /\ \A i \in 1 .. Len(all) :
                  \E k \in RootChildren :
                      nodes[k].move = all[i].move /\ nodes[k].visits = all[i].visits
            /\ \A i \in 1 .. (Len(all) - 1) : all[i].visits >= all[i + 1].visits

\* A return where the second root child has more visits than the first, so
\* that the sort changed the order.
C11_Witness ==
    /\ Returned
    /\ nodes # <<>>
    /\ Len(nodes[1].children) >= 2
    /\ nodes[nodes[1].children[1]].visits < nodes[nodes[1].children[2]].visits
    /\ stats.all_moves[1].move = nodes[nodes[1].children[2]].move

\* C12: when no root child was ever created (a non-terminal input with
\* iterations = 0) mcts_search returns no move, with total_simulations 0,
\* selected_visits 0, no selected move and an empty all_moves, without raising.
C12_NoChildReportsNoMove ==
    /\ (~is_terminal(root_state) /\ iterations = 0) => pc # "raised"
    /\ (Returned /\ ~is_terminal(root_state) /\ nodes[1].children = <<>>) =>
          /\ iterations = 0
          /\ best_move = None
          /\ stats.selected_move = None
          /\ stats.total_simulations = 0
          /\ stats.selected_visits = 0
          /\ stats.selected_win_rate = 0
          /\ stats.all_moves = <<>>

\* A return with iterations = 0 on a state with two legal moves.
C12_Witness ==
    /\ Returned
    /\ iterations = 0
    /\ ~is_terminal(root_state)
    /\ Len(get_legal_moves(root_state)) = 2
    /\ nodes = <<MCTSNode(root_state, 0, None)>>

\* C13 (as claimed): a call with iterations <= 0 or exploration_constant <= 0
\* is rejected at the call boundary: it ends in an error, builds no node and
\* runs no iteration.
C13_RejectsNonPositiveConfiguration ==
    (iterations <= 0 \/ exploration_constant <= 0) =>
        /\ pc \in {"call", "raised"}
        /\ nodes = <<>>
        /\ it = 0

\* The player who made the move landing in node k.
MoverInto(k) == other_player(nodes[k].state.current_player)

KidStats ==
    {<<v, w>> : v \in 0 .. MaxVisits, w \in {0, 1, 2}}

\* A node over the empty board with the given visits, whose children, for the
\* columns 0, 1, ... in this order, hold the visits and wins kids[k].
UctTree(visits, kids) ==
    LET s == Connect4State(EmptyBoard, PLAYER1)
        parent == [MCTSNode(s, 0, None) EXCEPT
                      !.visits = visits,
                      !.children = [k \in 1 .. Len(kids) |-> k + 1],
                      !.untried_moves =
                          SelectSeq(get_legal_moves(s), LAMBDA c : c >= Len(kids))]
    IN  <<parent>> \o
        [k \in 1 .. Len(kids) |->
            [MCTSNode(make_move(clone(s), k - 1).state, 1, k - 1) EXCEPT
                !.visits = kids[k][1],
                !.wins = kids[k][1] * kids[k][2]]]

UctTrees ==
    {UctTree(v, kids) :
        v \in 0 .. MaxVisits,
        kids \in UNION {[1 .. n -> KidStats] : n \in 1 .. MaxKids}}

\* select_child_uct is about to be called on the first node of a tree.
UctInit ==
    /\ nodes \in UctTrees
    /\ node = 1
    /\ pc = "uct"
    /\ exploration_constant \in ExplorationConstants
    /\ root_state = Connect4State(EmptyBoard, PLAYER1)
    /\ iterations = 0
    /\ root_player = PLAYER1
    /\ it = 0
    /\ state = root_state
    /\ simulation_state = root_state
    /\ result = 0
    /\ best_move = None
    /\ stats = EmptyDict
    /\ gs = Connect4State(EmptyBoard, PLAYER1)
    /\ calls = 0
    /\ last = NoCall
    /\ AuxInit

\* nodes[1].select_child_uct(exploration_constant): the child returned and the
\* number of children whose score was evaluated, or the exception; a score
\* that raises is the only one evaluated.
SelectChildUct ==
    /\ pc = "uct"
    /\ LET r == select_child_uct(nodes, node, exploration_constant)
       IN  IF r.raises
           THEN uct' = [raises |-> TRUE, child |-> 0,
                        evaluated |-> IF r.scored = {} THEN 0 ELSE 1]
           ELSE \E child \in r.choices :
                   uct' = [raises |-> FALSE, child |-> child,
                           evaluated |-> Cardinality(r.scored)]
    /\ pc' = "uct_done"
    /\ UNCHANGED <<root_state, iterations, exploration_constant, root_player, nodes,
                   it, node, state, simulation_state, result, best_move, stats,
                   rules_vars, column_stats, random_source, astar, run, first, heap_vars>>

UctNext == SelectChildUct

SpecUct == UctInit /\ [][UctNext]_vars

\* C16 (as claimed): a select_child_uct call on a node with at least one
\* child of zero visits returns a child of zero visits without raising and
\* without evaluating the UCB1 score of any child.
C16_ZeroVisitChildBeforeAnyScore ==
    (pc = "uct_done"
        /\ \E k \in 1 .. Len(nodes[1].children) : nodes[nodes[1].children[k]].visits = 0) =>
        /\ ~uct.raises
        /\ nodes[uct.child].visits = 0
        /\ uct.evaluated = 0

\* C17: during a search every evaluation of the UCB1 score happens with the
\* parent's visits >= 1 and the child's visits >= 1: whenever the selection loop
\* calls select_child_uct, the node and all its children have visits >= 1, so
\* the zero-visit branch is not taken and all children are scored; when the
\* statistics are computed the root has visits >= 1 if it has a child; and
\* outside the simulation and backpropagation of an iteration every node but
\* the root has visits >= 1.
C17_ScoresEvaluatedOnVisitedNodes ==
    /\ (pc = "select" /\ selection_continues(nodes[node])) =>
          LET r == select_child_uct(nodes, node, exploration_constant)
          IN  /\ ~r.raises
              /\ nodes[node].visits >= 1
              /\ \A k \in 1 .. Len(nodes[node].children) :
                     nodes[nodes[node].children[k]].visits >= 1
              /\ r.scored = 1 .. Len(nodes[node].children)
    /\ pc = "finish" =>
          /\ ~stats_raise(nodes)
          /\ nodes[1].children # <<>> => nodes[1].visits >= 1
    /\ pc \in {"loop", "select", "expand", "finish", "done"} =>
          \A k \in 2 .. Len(nodes) : nodes[k].visits >= 1

\* The selection loop, having descended from a root with two children of
\* different visits, is about to score the children of a node below the root.
C17_Witness ==
    /\ pc = "select"
    /\ node > 1
    /\ selection_continues(nodes[node])
    /\ Len(nodes[1].children) = 2
    /\ nodes[nodes[1].children[1]].visits # nodes[nodes[1].children[2]].visits

\* The children of node n, as node indices.
ChildrenOf(n) == {nodes[n].children[i] : i \in 1 .. Len(nodes[n].children)}

\* C18: a step of the selection loop that descends leaves a node that is fully
\* expanded and not terminal for one of its children; when all children of the
\* node have visits >= 1 the child's UCB1 score
\* wins/visits + c * sqrt(ln(parent visits)/visits) is at least the score of
\* every other child; the running state gets the child's move. A node that is
\* terminal or has untried moves is not left.
C18_SelectsMaximalScore ==
    [][pc = "select" =>
          /\ node' # node =>
                /\ is_fully_expanded(nodes[node])
                /\ ~node_is_terminal(nodes[node])
                /\ node' \in ChildrenOf(node)
                /\ (\A j \in ChildrenOf(node) : nodes[j].visits >= 1) =>
                      \A j \in ChildrenOf(node) :
                          ucb_score(nodes[j], nodes[node].visits, exploration_constant)
                              <= ucb_score(nodes[node'], nodes[node].visits,
                                           exploration_constant)
                /\ state' = make_move(state, nodes[node'].move).state
          /\ (node_is_terminal(nodes[node]) \/ ~is_fully_expanded(nodes[node])) =>
                (node' = node /\ pc' = "expand")
          /\ nodes' = nodes]_vars

\* The selection loop has just descended from the root to a child whose score
\* is strictly above its sibling's, although its win rate is strictly below.
C18_Witness ==
    /\ pc = "select"
    /\ node > 1
    /\ nodes[node].parent = 1
    /\ \E j \in RootChildren :
          /\ j # node
          /\ ucb_score(nodes[j], nodes[1].visits, exploration_constant)
                < ucb_score(nodes[node], nodes[1].visits, exploration_constant)
          /\ nodes[j].wins * nodes[node].visits > nodes[node].wins * nodes[j].visits

\* The elements of a sequence.
Range(seq) == {seq[i] : i \in 1 .. Len(seq)}

\* C19: in every state of a search and for every node, the moves of its
\* children are pairwise distinct, none of them is among untried_moves, the
\* untried moves are pairwise distinct, and the children's moves together with
\* untried_moves are exactly the legal moves of the node's state when it is
\* not terminal; a terminal node has no untried moves and no children. Each
\* child is held by its parent once and holds the parent's state after its move.
C19_ChildrenAndUntriedPartitionLegalMoves ==
    \A n \in 1 .. Len(nodes) :
        LET kids == nodes[n].children
            untried == nodes[n].untried_moves
            moved == {nodes[kids[i]].move : i \in 1 .. Len(kids)}
        IN  /\ \A i, j \in 1 .. Len(kids) :
                  nodes[kids[i]].move = nodes[kids[j]].move => i = j
            /\ \A i, j \in 1 .. Len(untried) : untried[i] = untried[j] => i = j
            /\ moved \cap Range(untried) = {}
            /\ IF node_is_terminal(nodes[n])
               THEN untried = <<>> /\ kids = <<>>
               ELSE moved \cup Range(untried) = Range(get_legal_moves(nodes[n].state))
            /\ \A i \in 1 .. Len(kids) :
                  /\ nodes[kids[i]].parent = n
                  /\ nodes[kids[i]].state
                        = make_move(nodes[n].state, nodes[kids[i]].move).state

\* The root has both its children and no untried move, and a node below the
\* root holds one child and one untried move.
C19_Witness ==
    /\ Len(nodes) >= 4
    /\ Len(nodes[1].children) = 2
    /\ nodes[1].untried_moves = <<>>
    /\ \E n \in 2 .. Len(nodes) :
          Len(nodes[n].children) = 1 /\ Len(nodes[n].untried_moves) = 1

\* C20: an iteration adds at most one node to the tree. The expansion phase
\* adds exactly one node, a new last child of the node where selection stopped,
\* when that node is not terminal, and none when it is terminal; no other phase
\* adds or removes a node. So the tree has at most one node more than the
\* iterations completed (one more while an iteration is past its expansion),
\* and the root is the only node without a parent.
C20_OneNodePerIteration ==
    /\ [](nodes # <<>> =>
            /\ nodes[1].parent = 0
            /\ \A k \in 2 .. Len(nodes) : nodes[k].parent \in 1 .. (k - 1)
            /\ Len(nodes) <= it + 1
                  + (IF pc \in {"simulate", "playout", "backprop"} THEN 1 ELSE 0)
            /\ pc \in {"loop", "finish", "done"} => Len(nodes) <= it + 1)
    /\ [][/\ pc = "expand" =>
                IF node_is_terminal(nodes[node])
                THEN nodes' = nodes /\ node' = node
                ELSE /\ Len(nodes') = Len(nodes) + 1
                     /\ node' = Len(nodes')
                     /\ nodes'[node'].parent = node
                     /\ nodes'[node].children = Append(nodes[node].children, node')
                     /\ \A k \in 1 .. Len(nodes) :
                           k # node => nodes'[k] = nodes[k]
          /\ pc \notin {"expand", "call"} => Len(nodes') = Len(nodes)]_vars

\* All iterations are complete and at least one of them stopped on a terminal
\* node, adding no node.
C20_Witness ==
    /\ pc = "loop"
    /\ it = iterations
    /\ it >= 3
    /\ Len(nodes) >= 3
    /\ Len(nodes) < it + 1

\* ------------------------------------------------------------ two calls, one random source
\* The streams of values the random module may deliver: 0 or 1 each, repeating
\* after TapeLen values.
RandomSources == [1 .. TapeLen -> {0, 1}]

\* The number of moves from the root to node n.
RECURSIVE Depth(_)
Depth(n) == IF nodes[n].parent = 0 THEN 0 ELSE 1 + Depth(nodes[n].parent)

\* The number of pieces on the board of s.
Pieces(s) == Cardinality({q \in Rows \X Cols : s.board[q[1]][q[2]] # EMPTY})

\* The value the random source delivers at place k of iteration it.
Draw(k) == random_source[((it + k) % TapeLen) + 1]

\* random.choice(seq) when the random source delivers r.
Pick(seq, r) == seq[(r % Len(seq)) + 1]

\* update_column_stats(col, winner) on the global column_stats.
update_column_stats(cs, col, winner) ==
    IF winner = PLAYER1
    THEN [cs EXCEPT ![col].player1_wins = @ + 1]
    ELSE IF winner = PLAYER2
    THEN [cs EXCEPT ![col].player2_wins = @ + 1]
    ELSE cs

\* mcts_search is about to be called for the first of two times, with a given
\* random source.
ReplayInit ==
    /\ root_state \in StartStates
    /\ iterations \in 0 .. MaxIter
    /\ exploration_constant \in ExplorationConstants
    /\ root_player = None
    /\ nodes = <<>>
    /\ pc = "call"
    /\ it = 0
    /\ node = 0
    /\ state = root_state
    /\ simulation_state = root_state
    /\ result = 0
    /\ best_move = None
    /\ stats = EmptyDict
    /\ gs = Connect4State(EmptyBoard, PLAYER1)
    /\ calls = 0
    /\ last = NoCall
    /\ uct = NoUct
    /\ column_stats = NoColumnStats
    /\ random_source \in RandomSources
    /\ run = 1
    /\ first = NoOutcome
    /\ heap = <<>>
    /\ ref = NoRef
    /\ astar = NoAstar

\* Select, with random.choice(best_children) decided by the random source.
TapeSelect ==
    /\ Select
    /\ (selection_continues(nodes[node])
          /\ ~select_child_uct(nodes, node, exploration_constant).raises) =>
          node' = Pick(SelectSeq(nodes[node].children,
                                 LAMBDA k : k \in select_child_uct(
                                     nodes, node, exploration_constant).choices),
                       Draw(Depth(node)))

\* Expand, with random.choice(self.untried_moves) decided by the random source.
TapeExpand ==
    /\ Expand
    /\ (expansion_applies(nodes[node]) /\ nodes[node].untried_moves # <<>>) =>
          nodes'[Len(nodes')].move = Pick(nodes[node].untried_moves, Draw(1))

\* Playout, with random.choice(legal_moves) decided by the random source.
TapePlayout ==
    /\ Playout
    /\ (~is_terminal(simulation_state) /\ get_legal_moves(simulation_state) # <<>>) =>
          simulation_state' =
              make_move(simulation_state,
                        Pick(get_legal_moves(simulation_state),
                             Draw(2 + Pieces(simulation_state) - Pieces(state)))).state

\* Between the two calls: what the first call built and returned is kept, the
\* game loop may record a win in column_stats (for a column the start boards
\* leave open), and mcts_search is about to be called again with the same
\* arguments and the random source rewound.
Restart ==
    /\ pc = "done"
    /\ run = 1
    /\ first' = [nodes |-> nodes, best_move |-> best_move, stats |-> stats]
    /\ run' = 2
    /\ \E col \in OpenCols, winner \in Players \cup {None} :
          column_stats' = update_column_stats(column_stats, col, winner)
    /\ root_player' = None
    /\ nodes' = <<>>
    /\ pc' = "call"
    /\ it' = 0
    /\ node' = 0
    /\ state' = root_state
    /\ simulation_state' = root_state
    /\ result' = 0
    /\ best_move' = None
    /\ stats' = EmptyDict
    /\ UNCHANGED <<root_state, iterations, exploration_constant, rules_vars, uct,
                   random_source, astar, heap_vars>>

ReplayNext ==
    \/ Call
    \/ Iterate
    \/ TapeSelect
    \/ TapeExpand
    \/ Simulate
    \/ TapePlayout
    \/ Backpropagate
    \/ Finish
    \/ Restart

SpecReplay == ReplayInit /\ [][ReplayNext]_vars

C21_RunningStateMatchesNode ==
    /\ [](pc = "simulate" =>
             /\ state.board = nodes[node].state.board
             /\ state.current_player = nodes[node].state.current_player)
    /\ [][(pc = "select" /\ node' # node) =>
             make_move(state, nodes[node'].move).ok]_vars

\* The rollout is about to start at a node that the selection loop reached by
\* replaying at least one move, and that the expansion phase left alone.
C21_Witness ==
    /\ pc = "simulate"
    /\ node # 1
    /\ node_is_terminal(nodes[node])
    /\ nodes[node].visits >= 1

\* ------------------------------------------------------------ the rollout
\* mcts_search with the rollout's loop running as the sequential code it is: a
\* round of the loop that can be taken is taken.
SpecFair == Init /\ [][Next]_vars /\ WF_vars(Playout)

\* The cells of a state's board that are empty.
EmptyCells(s) == ROWS * COLS - Pieces(s)

\* C22: simulate_random_playout terminates. Every round of its loop applies a
\* move that is legal in simulation_state, the move succeeds and fills exactly
\* one empty cell, so no more moves are applied than the state passed in has
\* empty cells; a state that is not terminal has a legal move (the break inside
\* the loop is not reached); the state evaluated is terminal; and a rollout
\* that has started reaches its evaluation.
C22_PlayoutTerminates ==
    /\ [](pc = "playout" =>
             /\ Pieces(simulation_state) - Pieces(state) \in 0 .. EmptyCells(state)
             /\ (~is_terminal(simulation_state)
                    => get_legal_moves(simulation_state) # <<>>))
    /\ [](pc = "backprop" => is_terminal(simulation_state))
    /\ [][(pc = "playout" /\ pc' = "playout") =>
             \E c \in Range(get_legal_moves(simulation_state)) :
                 /\ make_move(simulation_state, c).ok
                 /\ simulation_state' = make_move(simulation_state, c).state
                 /\ EmptyCells(simulation_state') = EmptyCells(simulation_state) - 1]_vars
    /\ ((pc = "playout") ~> (pc = "backprop"))

\* A rollout that applied two moves or more and ended on a full board without
\* a winner has been evaluated.
C22_Witness ==
    /\ pc = "backprop"
    /\ Pieces(simulation_state) >= Pieces(state) + 2
    /\ check_winner(simulation_state) = None
    /\ get_legal_moves(simulation_state) = <<>>

\* ------------------------------------------------------------ objects and references
\* Mutant of heap_clone: no new object, the clone is the object itself.
heap_clone_shared(h, id) == [heap |-> h, ref |-> id]

\* clone on object id of the heap h: a new object, the last of the heap, built
\* by Connect4State(self.board, self.current_player), whose __init__ copies the
\* board row by row.
heap_clone(h, id) ==
    [heap |-> Append(h, Connect4State(h[id].board, h[id].current_player)),
     ref |-> Len(h) + 1]

\* make_move on object id of the heap h: the object itself is changed, and
\* with it what every name bound to it sees.
heap_make_move(h, id, col) == [h EXCEPT ![id] = make_move(@, col).state]

\* The tree as read through the references rf of its nodes' states.
Seen(h, tree, rf) ==
    [k \in 1 .. Len(tree) |-> [tree[k] EXCEPT !.state = h[rf.nodes[k]]]]

\* After a step: root_state, state, simulation_state and each node's state are
\* what their references show in the heap (an unbound name keeps its
\* placeholder).
Refresh(tree) ==
    /\ root_state' = heap'[ref'.root_state]
    /\ state' = IF ref'.state = 0 THEN state ELSE heap'[ref'.state]
    /\ simulation_state' =
           IF ref'.simulation_state = 0
           THEN simulation_state
           ELSE heap'[ref'.simulation_state]
    /\ nodes' = Seen(heap', tree, ref')

\* mcts_search is about to be called on the caller's object, the only object
\* there is.
HeapInit ==
    /\ heap \in {<<s>> : s \in StartStates}
    /\ ref = [NoRef EXCEPT !.root_state = 1]
    /\ root_state = heap[1]
    /\ iterations \in 0 .. MaxIter
    /\ exploration_constant \in ExplorationConstants
    /\ root_player = None
    /\ nodes = <<>>
    /\ pc = "call"
    /\ it = 0
    /\ node = 0
    /\ state = root_state
    /\ simulation_state = root_state
    /\ result = 0
    /\ best_move = None
    /\ stats = EmptyDict
    /\ gs = Connect4State(EmptyBoard, PLAYER1)
    /\ calls = 0
    /\ last = NoCall
    /\ uct = NoUct
    /\ column_stats = NoColumnStats
    /\ random_source = <<>>
    /\ run = 1
    /\ first = NoOutcome
    /\ astar = NoAstar

\* Call on objects: root_node holds root_state.clone().
HeapCall ==
    /\ pc = "call"
    /\ IF is_terminal(heap[ref.root_state])
       THEN /\ best_move' = None
            /\ stats' = EmptyDict
            /\ pc' = "done"
            /\ UNCHANGED <<root_player, heap, ref>>
            /\ Refresh(nodes)
       ELSE LET c == heap_clone(heap, ref.root_state)
            IN  /\ root_player' = heap[ref.root_state].current_player
                /\ heap' = c.heap
                /\ ref' = [ref EXCEPT !.nodes = <<c.ref>>]
                /\ Refresh(<<MCTSNode(c.heap[c.ref], 0, None)>>)
                /\ pc' = "loop"
                /\ UNCHANGED <<best_move, stats>>
    /\ UNCHANGED <<iterations, exploration_constant, it, node, result, rules_vars,
                   uct, column_stats, random_source, astar, run, first>>

\* Iterate on objects: state = root_state.clone().
HeapIterate ==
    /\ pc = "loop"
    /\ IF it < iterations
       THEN LET c == heap_clone(heap, ref.root_state)
            IN  /\ node' = 1
                /\ heap' = c.heap
                /\ ref' = [ref EXCEPT !.state = c.ref]
                /\ pc' = "select"
       ELSE /\ pc' = "finish"
            /\ UNCHANGED <<node, heap, ref>>
    /\ Refresh(nodes)
    /\ UNCHANGED <<iterations, exploration_constant, root_player, it, result,
                   best_move, stats, rules_vars, uct, column_stats, random_source, astar,
                   run, first>>

\* Select on objects: state.make_move(node.move) changes the object that state
\* is bound to.
HeapSelect ==
    /\ pc = "select"
    /\ IF selection_continues(nodes[node])
       THEN LET r == select_child_uct(nodes, node, exploration_constant)
            IN  IF r.raises
                THEN pc' = "raised" /\ UNCHANGED <<node, heap>>
                ELSE \E child \in r.choices :
                        /\ node' = child
                        /\ heap' = heap_make_move(heap, ref.state, nodes[child].move)
                        /\ pc' = "select"
       ELSE pc' = "expand" /\ UNCHANGED <<node, heap>>
    /\ UNCHANGED ref
    /\ Refresh(nodes)
    /\ UNCHANGED <<iterations, exploration_constant, root_player, it, result,
                   best_move, stats, rules_vars, uct, column_stats, random_source, astar,
                   run, first>>

\* Expand on objects: expand clones self.state, makes the move on the clone
\* and hands the clone to the new node; then state = node.state.clone().
HeapExpand ==
    /\ pc = "expand"
    /\ IF expansion_applies(nodes[node])
       THEN IF nodes[node].untried_moves = <<>>
            THEN pc' = "raised" /\ UNCHANGED <<node, heap, ref>> /\ Refresh(nodes)
            ELSE \E k \in 1 .. Len(nodes[node].untried_moves) :
                    LET move == nodes[node].untried_moves[k]
                        new_state == heap_clone(heap, ref.nodes[node])
                        moved == heap_make_move(new_state.heap, new_state.ref, move)
                        child == MCTSNode(moved[new_state.ref], node, move)
                        tree == Append([nodes EXCEPT
                                           ![node].untried_moves = Remove(@, move),
                                           ![node].children = Append(@, Len(nodes) + 1)],
                                       child)
                        c == heap_clone(moved, new_state.ref)
                    IN  /\ heap' = c.heap
                        /\ ref' = [ref EXCEPT !.nodes = Append(@, new_state.ref),
                                              !.state = c.ref]
                        /\ node' = Len(tree)
                        /\ Refresh(tree)
                        /\ pc' = "simulate"
       ELSE pc' = "simulate" /\ UNCHANGED <<node, heap, ref>> /\ Refresh(nodes)
    /\ UNCHANGED <<iterations, exploration_constant, root_player, it, result,
                   best_move, stats, rules_vars, uct, column_stats, random_source, astar,
                   run, first>>

\* Simulate on objects: simulation_state = state.clone().
HeapSimulate ==
    /\ pc = "simulate"
    /\ LET c == heap_clone(heap, ref.state)
       IN  /\ heap' = c.heap
           /\ ref' = [ref EXCEPT !.simulation_state = c.ref]
    /\ Refresh(nodes)
    /\ pc' = "playout"
    /\ UNCHANGED <<iterations, exploration_constant, root_player, it, node, result,
                   best_move, stats, rules_vars, uct, column_stats, random_source, astar,
                   run, first>>

\* Playout on objects: simulation_state.make_move(move) changes the object that
\* simulation_state is bound to.
HeapPlayout ==
    /\ pc = "playout"
    /\ IF ~is_terminal(simulation_state) /\ get_legal_moves(simulation_state) # <<>>
       THEN /\ \E k \in 1 .. Len(get_legal_moves(simulation_state)) :
                  heap' = heap_make_move(heap, ref.simulation_state,
                                         get_legal_moves(simulation_state)[k])
            /\ UNCHANGED <<result, pc>>
       ELSE /\ result' = evaluate_terminal_state(simulation_state, root_player)
            /\ pc' = "backprop"
            /\ UNCHANGED heap
    /\ UNCHANGED ref
    /\ Refresh(nodes)
    /\ UNCHANGED <<iterations, exploration_constant, root_player, it, node,
                   best_move, stats, rules_vars, uct, column_stats, random_source, astar,
                   run, first>>

\* Backpropagation and the final choice touch no Connect4State object.
HeapNext ==
    \/ HeapCall
    \/ HeapIterate
    \/ HeapSelect
    \/ HeapExpand
    \/ HeapSimulate
    \/ HeapPlayout
    \/ Backpropagate
    \/ Finish

SpecHeap == HeapInit /\ [][HeapNext]_vars

\* C23: mcts_search changes neither the caller's object nor the object a node
\* holds: no step changes what root_state shows (so on return it has the board
\* and the current_player it had on entry), no step changes the state of a
\* node that exists, and at every point the state of every node but the root
\* is its parent's state with the node's move applied.
C23_StatesNotMutated ==
    /\ [][root_state' = root_state]_vars
    /\ [][\A k \in 1 .. Len(nodes) :
             /\ ref'.nodes[k] = ref.nodes[k]
             /\ nodes'[k].state = nodes[k].state]_vars
    /\ [](\A k \in 2 .. Len(nodes) :
             nodes[k].state = make_move(nodes[nodes[k].parent].state,
                                        nodes[k].move).state)

\* The search has returned after the selection loop replayed a move on the
\* running state (a node other than the root was visited twice) and rollouts
\* made moves of their own.
C23_Witness ==
    /\ Returned
    /\ nodes # <<>>
    /\ \E k \in 2 .. Len(nodes) : nodes[k].visits >= 2
    /\ Pieces(heap[ref.simulation_state]) > Pieces(heap[ref.state])
    /\ Len(heap) > Len(nodes) + 1

\* ------------------------------------------------------------ visit conservation
\* sum(child.visits for child in node.children), for node n of the tree.
RECURSIVE SumVisits(_, _)
SumVisits(tree, kids) ==
    IF kids = <<>>
    THEN 0
    ELSE tree[kids[1]].visits + SumVisits(tree, Tail(kids))

\* Between iterations: the loop is at its head, has ended, or mcts_search has
\* returned a tree.
IterationBoundary == pc \in {"loop", "finish", "done"} /\ nodes # <<>>

\* C24: between iterations the root's visits are the sum of its children's
\* visits, which is the number of completed iterations, and the visits of
\* every node that is neither the root nor terminal are 1 plus the sum of its
\* children's visits.
C24_VisitsConserved ==
    IterationBoundary =>
        /\ nodes[1].visits = SumVisits(nodes, nodes[1].children)
        /\ SumVisits(nodes, nodes[1].children) = it
        /\ \A k \in 2 .. Len(nodes) :
               ~node_is_terminal(nodes[k]) =>
                   nodes[k].visits = 1 + SumVisits(nodes, nodes[k].children)

\* Between iterations, a node below the root that is not terminal has a child,
\* and the root has two children.
C24_Witness ==
    /\ IterationBoundary
    /\ Len(nodes[1].children) >= 2
    /\ \E k \in 2 .. Len(nodes) :
          /\ ~node_is_terminal(nodes[k])
          /\ nodes[k].children # <<>>

\* ------------------------------------------------------------ lines after one move
\* C25 as stated: after a successful make_move on a state without a winner, at
\* most one line of four exists on the board.
C25_AtMostOneLineAfterMove ==
    (last.col # None /\ last.ok /\ check_winner(last.before) = None) =>
        Cardinality(RefWonLines(gs.board)) <= 1

\* The cell that make_move(col) fills on a state: the lowest empty cell of the
\* column.
DropCell(s, col) == <<Max({r \in Rows : s.board[r][col] = EMPTY}), col>>

\* C25 (amended): after a successful make_move on a state without a winner,
\* every line of four on the board belongs to the player who moved and runs
\* through the cell just filled; there may be several, and check_winner
\* reports the first of them in scan order, with the mover as the winner.
C25_LinesAfterMoveAreTheMoversThroughTheCell ==
    (last.col # None /\ last.ok /\ check_winner(last.before) = None) =>
        /\ \A l \in RefWonLines(gs.board) :
              /\ gs.board[l[1]][l[2]] = last.before.current_player
              /\ \E i \in 0 .. 3 :
                    LineCell(l[1], l[2], l[3], i) = DropCell(last.before, last.col)
        /\ check_winner(gs) \in {None, last.before.current_player}
        /\ FirstLineReported(gs)

\* One move on a state without a winner has left two lines or more on the
\* board.
C25_Witness ==
    /\ last.col # None
    /\ last.ok
    /\ check_winner(last.before) = None
    /\ Cardinality(RefWonLines(gs.board)) >= 2

\* ------------------------------------------------------------ terminal states and legal moves
\* C26: is_terminal is true exactly when check_winner returns a player or
\* get_legal_moves is empty, so a state that is not terminal has a legal move;
\* and on a board built by drops a column is among the legal moves exactly
\* when make_move on it succeeds, as the call last made shows too.
C26_TerminalIffWinnerOrNoMoves ==
    /\ is_terminal(gs) <=>
           (check_winner(gs) \in Players \/ get_legal_moves(gs) = <<>>)
    /\ ~is_terminal(gs) => get_legal_moves(gs) # <<>>
    /\ \A c \in Cols :
           c \in Range(get_legal_moves(gs)) <=> make_move(gs, c).ok
    /\ last.col # None =>
           (last.ok <=> last.col \in Range(get_legal_moves(last.before)))

\* After a successful move the board has no winner, a full column and a
\* column that is not full.
C26_Witness ==
    /\ last.col # None
    /\ last.ok
    /\ ~is_terminal(gs)
    /\ \E c \in Cols : ~make_move(gs, c).ok
    /\ \E c \in Cols : make_move(gs, c).ok

\* ------------------------------------------------------------ two backpropagation conventions
\* Mutant of backprop_reward_by_mover: the player to move at the node is taken
\* for the player who moved into it.
backprop_reward_by_current_player(tree, n, res, player) ==
    IF tree[n].state.current_player = player THEN res ELSE 2 - res

\* The reward src/connect4_mcts.py adds to node n: the player who moved into
\* the node is taken to be the opposite of the node's player to move, at every
\* node, the root included; the result as it is where that player is the root
\* player, else 1.0 - result.
backprop_reward_by_mover(tree, n, res, player) ==
    LET player_who_moved ==
            IF tree[n].state.current_player = PLAYER2 THEN PLAYER1 ELSE PLAYER2
    IN  IF player_who_moved = player THEN res ELSE 2 - res

\* One round of the backpropagation loop of src/connect4_mcts.py.
BackpropagateByMover ==
    /\ pc = "backprop"
    /\ IF node # 0
       THEN /\ nodes' = [nodes EXCEPT
                           ![node] = update(@, backprop_reward_by_mover(
                                                   nodes, node, result, root_player))]
            /\ node' = nodes[node].parent
            /\ UNCHANGED <<it, pc>>
       ELSE /\ it' = it + 1
            /\ pc' = "loop"
            /\ UNCHANGED <<nodes, node>>
    /\ UNCHANGED <<root_state, iterations, exploration_constant, root_player,
                   state, simulation_state, result, best_move, stats, rules_vars, aux_vars>>

\* Between the two searches: what the first built and returned is kept, and
\* the search starts again with the same arguments, the random source rewound
\* and the other backpropagation.
Switch ==
    /\ pc = "done"
    /\ run = 1
    /\ first' = [nodes |-> nodes, best_move |-> best_move, stats |-> stats]
    /\ run' = 2
    /\ root_player' = None
    /\ nodes' = <<>>
    /\ pc' = "call"
    /\ it' = 0
    /\ node' = 0
    /\ state' = root_state
    /\ simulation_state' = root_state
    /\ result' = 0
    /\ best_move' = None
    /\ stats' = EmptyDict
    /\ UNCHANGED <<root_state, iterations, exploration_constant, rules_vars, uct,
                   column_stats, random_source, astar, heap_vars>>

\* The search run twice on one random source: first with the backpropagation
\* of src/MCTS_Connect4/connect4_mcts.py, then with that of
\* src/connect4_mcts.py.
VariantsNext ==
    \/ Call
    \/ Iterate
    \/ TapeSelect
    \/ TapeExpand
    \/ Simulate
    \/ TapePlayout
    \/ (run = 1 /\ Backpropagate)
    \/ (run = 2 /\ BackpropagateByMover)
    \/ Finish
    \/ Switch

SpecVariants == ReplayInit /\ [][VariantsNext]_vars

\* C27: the two backpropagations add the same reward to every node but the
\* root, where one adds the result and the other 1.0 - result; run on the same
\* random choices, they build trees that are equal but for the root's wins,
\* and return the same move and the same statistics.
C27_ConventionsAgreeBelowRoot ==
    /\ (pc = "backprop" /\ node # 0) =>
          IF nodes[node].parent # 0
          THEN backprop_reward_by_mover(nodes, node, result, root_player)
                   = backprop_reward(nodes, node, result, root_player)
          ELSE backprop_reward_by_mover(nodes, node, result, root_player)
                   = 2 - backprop_reward(nodes, node, result, root_player)
    /\ (run = 2 /\ Returned) =>
          /\ best_move = first.best_move
          /\ stats = first.stats
          /\ Len(nodes) = Len(first.nodes)
          /\ \A k \in 1 .. Len(nodes) :
                IF k = 1
                THEN /\ [nodes[k] EXCEPT !.wins = 0] = [first.nodes[k] EXCEPT !.wins = 0]
                     /\ nodes[k].wins = 2 * nodes[k].visits - first.nodes[k].wins
                ELSE nodes[k] = first.nodes[k]

\* The second search has returned a tree of three nodes or more whose root
\* wins differ from those of the first search.
C27_Witness ==
    /\ run = 2
    /\ Returned
    /\ Len(nodes) >= 3
    /\ nodes[1].wins # first.nodes[1].wins
    /\ \E k \in 2 .. Len(nodes) : nodes[k].wins # 0 /\ nodes[k].wins # 2 * nodes[k].visits

\* ------------------------------------------------------------ a game from the empty board
\* A new game: main starts on Connect4State(), PLAYER1 to move.
GameInit ==
    /\ gs = Connect4State(EmptyBoard, PLAYER1)
    /\ calls = 0
    /\ last = [col |-> None, ok |-> TRUE, before |-> gs]
    /\ root_state = Connect4State(EmptyBoard, PLAYER1)
    /\ iterations = 0
    /\ exploration_constant = 1414
    /\ root_player = None
    /\ nodes = <<>>
    /\ pc = "rules"
    /\ it = 0
    /\ node = 0
    /\ state = root_state
    /\ simulation_state = root_state
    /\ result = 0
    /\ best_move = None
    /\ stats = EmptyDict
    /\ AuxInit

\* One move of the game loop: while the game is not over (no winner, board not
\* full), the player to move, human or search, drops a piece in a legal column.
GameMove ==
    /\ calls < MaxPlies
    /\ ~is_terminal(gs)
    /\ \E k \in 1 .. Len(get_legal_moves(gs)) :
          gs' = make_move(gs, get_legal_moves(gs)[k]).state
    /\ calls' = calls + 1
    /\ UNCHANGED <<last, search_vars, aux_vars>>

GameNext == GameMove

SpecGame == GameInit /\ [][GameNext]_vars

\* C28: in a game played from the empty board by legal moves that stops at the
\* first terminal state, at most one player has four in a row, and a winner is
\* the player who moved last (PLAYER1 after an odd number of moves, PLAYER2
\* after an even number), not the player to move.
C28_OneLineOwnerTheLastMover ==
    /\ Cardinality(RefOwners(gs.board)) <= 1
    /\ gs.current_player = (IF calls % 2 = 0 THEN PLAYER1 ELSE PLAYER2)
    /\ check_winner(gs) # None =>
          /\ calls >= 1
          /\ check_winner(gs) = (IF calls % 2 = 1 THEN PLAYER1 ELSE PLAYER2)
          /\ check_winner(gs) # gs.current_player
          /\ RefOwners(gs.board) = {check_winner(gs)}

\* PLAYER2 has won the game.
C28_Witness ==
    /\ check_winner(gs) = PLAYER2
    /\ gs.current_player = PLAYER1
    /\ calls >= 8

\* ------------------------------------------------------------ the immediate win
\* The root children whose state is won by the root player.
WonChildren == {k \in RootChildren : check_winner(nodes[k].state) = root_player}

\* C29: a root child whose state is a win of the root player is terminal, has
\* no untried moves and never gets children; every backpropagation through it
\* adds one visit and the reward 1.0, so its wins equal its visits at all
\* times; and the win rate reported for it is exactly 100%, above the 95% the
\* test asks for.
C29_WonChildHasFullWinRate ==
    /\ [](nodes # <<>> =>
             \A k \in WonChildren :
                 /\ node_is_terminal(nodes[k])
                 /\ nodes[k].untried_moves = <<>>
                 /\ nodes[k].children = <<>>
                 /\ nodes[k].wins = 2 * nodes[k].visits
                 /\ Returned =>
                       \E i \in 1 .. Len(stats.all_moves) :
                           /\ stats.all_moves[i].move = nodes[k].move
                           /\ stats.all_moves[i].visits = nodes[k].visits
                           /\ stats.all_moves[i].win_rate = 10000
                           /\ stats.all_moves[i].win_rate > 9500)
    /\ [][(pc = "backprop" /\ node # 0 /\ node \in WonChildren) =>
             /\ nodes'[node].visits = nodes[node].visits + 1
             /\ nodes'[node].wins = nodes[node].wins + 2]_vars

\* The search has returned with a won root child visited twice or more beside
\* a root child whose reported win rate is below 100%.
C29_Witness ==
    /\ Returned
    /\ nodes # <<>>
    /\ \E k \in WonChildren : nodes[k].visits >= 2
    /\ \E i \in 1 .. Len(stats.all_moves) : stats.all_moves[i].win_rate < 10000

\* ------------------------------------------------------------ A* playground (src/main.py)
\* The grid, cut down from the 20 x 30 cells of constants.py: cells outside it
\* behave as walls do.
GridRows == 2
GridCols == 6
\* The largest number of wall cells.
MaxWalls == 1

GridCells == (0 .. (GridRows - 1)) \X (0 .. (GridCols - 1))

\* The wall sets tried.
WallSets == {w \in SUBSET GridCells : Cardinality(w) <= MaxWalls}

Abs(x) == IF x < 0 THEN -x ELSE x

\* heuristic with allow_diagonal off: the Manhattan distance.
heuristic(a, b) == Abs(a[1] - b[1]) + Abs(a[2] - b[2])

\* The directions of get_neighbors with allow_diagonal off, in its order.
CardinalDirections == <<<<-1, 0>>, <<1, 0>>, <<0, -1>>, <<0, 1>>>>

\* get_neighbors: the cells next to cell, in the order of the directions, that
\* lie in the grid and are not walls.
get_neighbors(walls, cell) ==
    SelectSeq([i \in 1 .. Len(CardinalDirections) |->
                  <<cell[1] + CardinalDirections[i][1],
                    cell[2] + CardinalDirections[i][2]>>],
              LAMBDA n : n \in GridCells /\ n \notin walls)

\* reconstruct_path: follow came_from from current back to a cell without an
\* entry, and reverse.
RECURSIVE reconstruct_path(_, _)
reconstruct_path(came_from, current) ==
    IF current \in DOMAIN came_from
    THEN Append(reconstruct_path(came_from, came_from[current]), current)
    ELSE <<current>>

\* Python's order on the heap entries (f, (row, col)).
HeapLess(a, b) ==
    \/ a[1] < b[1]
    \/ a[1] = b[1] /\ a[2][1] < b[2][1]
    \/ a[1] = b[1] /\ a[2][1] = b[2][1] /\ a[2][2] < b[2][2]

\* heapq.heappop: the least entry of the heap.
HeapMin(open_heap) == CHOOSE a \in open_heap : \A b \in open_heap : a = b \/ HeapLess(a, b)

\* d[k] = v on a dictionary.
SetItem(d, k, v) == [x \in DOMAIN d \cup {k} |-> IF x = k THEN v ELSE d[x]]

\* The loop over get_neighbors(current), in their order: each neighbour
\* outside the closed set whose route through current is the first or a
\* cheaper one gets its came_from, g_score and f_score entries set; it is
\* pushed on the heap only when it is not in the open set, so an entry already
\* on the heap keeps its priority.
\* The step cost is 1.0: in 4 directions no neighbour is a diagonal one.
RECURSIVE Relax(_, _, _)
Relax(a, current, neighbors) ==
    IF neighbors = <<>>
    THEN a
    ELSE LET neighbor == Head(neighbors)
             step_cost == 1
             tentative_g == a.g_score[current] + step_cost
             better == neighbor \notin DOMAIN a.g_score
                           \/ tentative_g < a.g_score[neighbor]
             f == tentative_g + heuristic(neighbor, a.goal)
             updated ==
                 [a EXCEPT !.came_from = SetItem(@, neighbor, current),
                           !.g_score = SetItem(@, neighbor, tentative_g),
                           !.f_score = SetItem(@, neighbor, f),
                           !.open_heap = IF neighbor \notin a.open_set
                                         THEN @ \cup {<<f, neighbor>>}
                                         ELSE @,
                           !.open_set = @ \cup {neighbor}]
         IN  IF neighbor \in a.closed_set
             THEN Relax(a, current, Tail(neighbors))
             ELSE Relax(IF better THEN updated ELSE a, current, Tail(neighbors))

\* The playground with walls, start and goal set by the mouse, the movement
\* mode set to 4 directions, and Space about to be pressed.
AstarInit ==
    /\ astar \in {[NoAstar EXCEPT !.pc = "ready", !.walls = w, !.start = s, !.goal = g] :
                     w \in WallSets, s \in GridCells, g \in GridCells}
    /\ root_state = Connect4State(EmptyBoard, PLAYER1)
    /\ iterations = 0
    /\ exploration_constant = 1414
    /\ root_player = None
    /\ nodes = <<>>
    /\ pc = "astar"
    /\ it = 0
    /\ node = 0
    /\ state = root_state
    /\ simulation_state = root_state
    /\ result = 0
    /\ best_move = None
    /\ stats = EmptyDict
    /\ gs = Connect4State(EmptyBoard, PLAYER1)
    /\ calls = 0
    /\ last = NoCall
    /\ uct = NoUct
    /\ column_stats = NoColumnStats
    /\ random_source = <<>>
    /\ run = 1
    /\ first = NoOutcome
    /\ heap = <<>>
    /\ ref = NoRef

\* run_astar up to its loop: the results are reset; a wall on start or goal
\* returns; else the heap, the sets and the scores are set up.
RunAstar ==
    /\ astar.pc = "ready"
    /\ LET reset == [astar EXCEPT !.current_path = NoPath,
                                  !.current_closed = {},
                                  !.path_cost = 0,
                                  !.g_scores = EmptyDict]
       IN  astar' =
               IF astar.start \in astar.walls \/ astar.goal \in astar.walls
               THEN [reset EXCEPT !.pc = "returned"]
               ELSE [reset EXCEPT
                        !.open_heap = {<<0, astar.start>>},
                        !.open_set = {astar.start},
                        !.closed_set = {},
                        !.g_score = SetItem(EmptyDict, astar.start, 0),
                        !.f_score = SetItem(EmptyDict, astar.start,
                                            heuristic(astar.start, astar.goal)),
                        !.came_from = EmptyDict,
                        !.pc = "loop"]
    /\ UNCHANGED <<search_vars, rules_vars, uct, column_stats, random_source, run,
                   first, heap_vars>>

\* One round of 'while open_heap': pop the least entry; at the goal set the
\* results and return; else close the cell and go through its neighbours. An
\* empty heap ends the loop without a path.
AstarStep ==
    /\ astar.pc = "loop"
    /\ astar' =
          IF astar.open_heap = {}
          THEN [astar EXCEPT !.current_path = NoPath,
                             !.current_closed = astar.closed_set,
                             !.g_scores = astar.g_score,
                             !.pc = "returned"]
          ELSE LET top == HeapMin(astar.open_heap)
                   current == top[2]
                   popped == [astar EXCEPT !.open_heap = @ \ {top},
                                           !.open_set = @ \ {current}]
               IN  IF current = astar.goal
                   THEN [popped EXCEPT
                            !.current_path = reconstruct_path(astar.came_from, current),
                            !.current_closed = astar.closed_set,
                            !.path_cost = astar.g_score[astar.goal],
                            !.g_scores = astar.g_score,
                            !.pc = "returned"]
                   ELSE Relax([popped EXCEPT !.closed_set = @ \cup {current}],
                              current, get_neighbors(astar.walls, current))
    /\ UNCHANGED <<search_vars, rules_vars, uct, column_stats, random_source, run,
                   first, heap_vars>>

AstarNext ==
    \/ RunAstar
    \/ AstarStep

SpecAstar == AstarInit /\ [][AstarNext]_vars

\* The cells reached from the cells of frontier, none of them in seen, after d
\* steps: the number of steps of a shortest route to goal, None without one.
RECURSIVE Steps(_, _, _, _, _)
Steps(walls, goal, frontier, seen, d) ==
    IF goal \in frontier
    THEN d
    ELSE IF frontier = {}
    THEN None
    ELSE LET next == {n \in GridCells :
                         /\ n \notin seen
                         /\ n \notin walls
                         /\ \E c \in frontier : heuristic(c, n) = 1}
         IN  Steps(walls, goal, next, seen \cup next, d + 1)

\* The fewest steps from start to goal through cells that are not walls; None
\* when the goal cannot be reached or start or goal is a wall.
Shortest(a) ==
    IF a.start \in a.walls \/ a.goal \in a.walls
    THEN None
    ELSE Steps(a.walls, a.goal, {a.start}, {a.start}, 0)

\* The path run_astar left is a route from start to goal through neighbouring
\* cells that are not walls.
IsRoute(a) ==
    LET path == a.current_path
    IN  /\ path # NoPath
        /\ path[1] = a.start
        /\ path[Len(path)] = a.goal
        /\ \A i \in 1 .. Len(path) : path[i] \in GridCells \ a.walls
        /\ \A i \in 1 .. (Len(path) - 1) : heuristic(path[i], path[i + 1]) = 1

\* C30 as stated: when run_astar has returned, current_path is None if the
\* goal cannot be reached or start or goal is a wall; otherwise it is a route
\* from start to goal with the fewest steps, which is also path_cost.
C30_AstarPathIsShortest ==
    astar.pc = "returned" =>
        IF Shortest(astar) = None
        THEN astar.current_path = NoPath
        ELSE /\ IsRoute(astar)
             /\ Len(astar.current_path) - 1 = Shortest(astar)
             /\ astar.path_cost = Shortest(astar)

====
